---- MODULE Spec2Model ----
(***************************************************************************)
(* A model of scanbadblocks (src/src/scanbadblocks.cpp): class             *)
(* BlockChecker and the part of main() that drives it.                     *)
(*                                                                         *)
(* The program is single threaded; pc is the position of its one thread.   *)
(* Every action is one stretch of code between two points at which the     *)
(* environment (the device, the clock, the operator at the prompt) can     *)
(* make a choice.                                                          *)
(*                                                                         *)
(* Units.  Sizes are bytes.  Time is counted in ticks of 0.25 s, so the    *)
(* 0.5 s of printProgress is 2 ticks.  The clock advances only inside a    *)
(* read()/write() call: by 1 tick, or, for a call the device serves slowly *)
(* or at once, by 3 ticks or by none.  A rate (bytes/time/MB) is kept as    *)
(* the pair                                                                *)
(* <<bytes, time>> and compared by cross multiplication; the common factor *)
(* MB drops out of every comparison.                                       *)
(***************************************************************************)
EXTENDS Integers, Sequences, FiniteSets, TLC

\* ------------------------------------------------------------------ bounds
MaxSizeBytes == 10      \* device sizes 0..MaxSizeBytes
MaxBlockSize == 9       \* --block-size 0..MaxBlockSize
MaxBlocks == 3          \* at most MaxBlocks blocks per pass
MaxPatterns == 2        \* --pattern lists of up to MaxPatterns bytes
MaxPatternByte == 1     \* pattern bytes 0..MaxPatternByte
MaxEvents == 1          \* I/O calls per run that fail, return changed bytes,
                        \* or take an unusual time
MaxStatBlocks == 5      \* blocks of the devices read with free call times

\* ------------------------------------------------------- program constants
ProgressInterval == 2   \* 0.5 s, in ticks of 0.25 s
IndexBytes == 8         \* initBlock writes buffer[0] .. buffer[7]

Percentiles == <<50, 20, 10, 5>>

VARIABLES
    \* command line and device size (main, BlockChecker::BlockChecker)
    blockSize, sizeBytes, patterns, outfile, overwrite,
    \* BlockChecker fields
    numBlocks, blockStats, totalWrite, totalRead,
    lastProgressTime, passIndex, readPassesRemaining, writePassesRemaining,
    numPasses,
    \* control: position of the thread, loop variable i of checkWriteRead
    pc, patIdx,
    \* locals of the running pass
    fd, blockIndex, buffer, expected, pattern, deref,
    \* environment: clock, device content, file offset of fd, faults so far
    now, dev, pos, faults, anomalies,
    \* what the run has shown so far (output and calls made)
    passLog, processed, openCalls, prompts, confirmed, csv, reports,
    progress, verdict, err

cfgVars == <<blockSize, sizeBytes, patterns, outfile, overwrite>>
objVars == <<numBlocks, blockStats, totalWrite, totalRead, lastProgressTime,
             passIndex, readPassesRemaining, writePassesRemaining, numPasses>>
passVars == <<fd, blockIndex, buffer, expected, pattern, deref>>
envVars == <<now, dev, pos, faults, anomalies>>
outVars == <<passLog, processed, openCalls, prompts, confirmed, csv, reports,
             progress, verdict, err>>
vars == <<cfgVars, objVars, pc, patIdx, passVars, envVars, outVars>>

\* ----------------------------------------------------------------- helpers
ZeroStats == [time |-> 0, errors |-> 0, bytes |-> 0]

Fill(n, b) == [k \in 1..n |-> b]

RECURSIVE Xor(_, _, _)
\* bitwise exclusive or of the low `bits` bits of a and b
Xor(a, b, bits) ==
    IF bits = 0 THEN 0
    ELSE (((a % 2) + (b % 2)) % 2) + 2 * Xor(a \div 2, b \div 2, bits - 1)

RECURSIVE ShiftRight8(_, _)
\* i >> (8 * k)
ShiftRight8(i, k) == IF k = 0 THEN i ELSE ShiftRight8(i \div 256, k - 1)

RECURSIVE SumSeq(_)
SumSeq(s) == IF s = <<>> THEN 0 ELSE Head(s) + SumSeq(Tail(s))

\* the --pattern lists explored: up to MaxPatterns bytes, no byte twice, so
\* that the passes of a run are told apart by their pattern
PatternLists ==
    {p \in UNION {[1..n -> 0..MaxPatternByte] : n \in 0..MaxPatterns} :
        \A i, j \in 1..Len(p) : p[i] = p[j] => i = j}

\* ---------------------------------------------------------- block geometry
\* NumBlocksOf without the rounding up: a partial last block is dropped
NumBlocksOf_Floor(size, bs) == size \div bs

\* BlockChecker::BlockChecker: numBlocks = (sizeBytes + blockSize - 1) / blockSize
NumBlocksOf(size, bs) == (size + bs - 1) \div bs

\* readPass / writePass: the access length of block i (0-based)
accessSize(i) ==
    IF (i + 1) * blockSize > sizeBytes THEN sizeBytes % blockSize ELSE blockSize

\* -------------------------------------------------------- pattern generator
\* BlockChecker::initBlock: buffer[k] = pattern ^ ((blockIndex >> 8k) & 0xff)
\* for k = 0..7.  Only the writes that land inside the vector are kept here;
\* with blockSize < 8 the others go past its end (see InitBlockOverflow).
initBlock(buf, i, p) ==
    [k \in 1..Len(buf) |->
        IF k <= IndexBytes
        THEN Xor(p, (ShiftRight8(i, k - 1) % 256), 8)
        ELSE buf[k]]

\* readPass: the byte comparison loop runs over i = 0 .. blockSize-1 and
\* stops at the first difference
Mismatch(buf, exp) == \E i \in 1..blockSize : buf[i] # exp[i]

\* DataError without the test of line 116: the comparison runs in every pass
DataError_Always(pat, buf, exp) == Mismatch(buf, exp)

\* readPass 116-128: a data error is counted when a pattern is given and the
\* returned buffer differs from the expected one
DataError(pat, buf, exp) == pat # <<>> /\ Mismatch(buf, exp)

\* ------------------------------------------------------------- statistics
\* BlockStats::getRateMB, as the pair <<bytes, time>>; 0 when time is 0
getRateMB(r) == IF r.time > 0 THEN <<r.bytes, r.time>> ELSE <<0, 1>>

RateLess(a, b) == a[1] * b[2] < b[1] * a[2]

RECURSIVE InsertByRate(_, _)
InsertByRate(sorted, r) ==
    IF sorted = <<>> THEN <<r>>
    ELSE IF RateLess(getRateMB(r), getRateMB(Head(sorted)))
         THEN <<r>> \o sorted
         ELSE <<Head(sorted)>> \o InsertByRate(Tail(sorted), r)

\* SortByRate without the sort: the records stay in index order
SortByRate_None(stats) == stats

RECURSIVE SortByRate(_)
\* std::sort by getRateMB ascending.  The order std::sort gives records of
\* equal rate is unspecified; nothing reads it, and this sort keeps them in
\* index order.
SortByRate(stats) ==
    IF stats = <<>> THEN <<>>
    ELSE InsertByRate(SortByRate(SubSeq(stats, 1, Len(stats) - 1)),
                      stats[Len(stats)])

RECURSIVE SlowCount_OrEqual(_, _, _, _)
\* SlowCount with <= for <: a block at exactly the threshold is counted too
SlowCount_OrEqual(sorted, med, percent, num) ==
    IF num < Len(sorted) /\
       getRateMB(sorted[num + 1])[1] * med[2] * 100
           <= med[1] * percent * getRateMB(sorted[num + 1])[2]
    THEN SlowCount_OrEqual(sorted, med, percent, num + 1)
    ELSE num

RECURSIVE SlowCount(_, _, _, _)
\* for (; num < numBlocks && blockStats[num].getRateMB() < med * percent / 100.0; num++);
SlowCount(sorted, med, percent, num) ==
    IF num < Len(sorted) /\
       getRateMB(sorted[num + 1])[1] * med[2] * 100
           < med[1] * percent * getRateMB(sorted[num + 1])[2]
    THEN SlowCount(sorted, med, percent, num + 1)
    ELSE num

\* CsvLines written after the sort: line i carries the record at place i of
\* the records sorted by rate
CsvLines_Sorted(stats) ==
    [i \in 1..Len(stats) |->
        <<i - 1, SortByRate(stats)[i].time, SortByRate(stats)[i].errors>>]

\* printPassStats: the CSV lines, written before the sort
CsvLines(stats) ==
    [i \in 1..Len(stats) |-> <<i - 1, stats[i].time, stats[i].errors>>]

\* printPassStats: sum of the per-block error counts
PassErrors(stats) == SumSeq([i \in 1..Len(stats) |-> stats[i].errors])

PassTime(stats) == SumSeq([i \in 1..Len(stats) |-> stats[i].time])

\* printPassStats: what the pass summary line and the warnings carry
PassReport(read, stats) ==
    LET sorted == SortByRate(stats)
        med == getRateMB(sorted[(numBlocks \div 2) + 1])
        totalTime == PassTime(sorted)
    IN  [pass |-> passIndex + 1,
         dir |-> IF read THEN "read" ELSE "write",
         errors |-> PassErrors(sorted),
         min |-> getRateMB(sorted[1]),
         max |-> getRateMB(sorted[numBlocks]),
         med |-> med,
         avg |-> IF totalTime > 0 THEN <<sizeBytes, totalTime>> ELSE <<0, 1>>,
         slow |-> [t \in 1..Len(Percentiles) |->
                      SlowCount(sorted, med, Percentiles[t], 0)]]

\* printPassStats 286-289: the thresholds for which a warning is printed
Warnings(report) == {t \in 1..Len(Percentiles) : report.slow[t] > 0}

\* -------------------------------------------------------- progress reporter
\* The remaining-time estimate of the progress line (lines 210-223) is printed
\* and kept nowhere; it is not part of the model.
\* ProgressDue without the test of line 194: every call emits a line
ProgressDue_Always(t) == TRUE

\* printProgress: whether a line is emitted at clock value t
ProgressDue(t) == t - lastProgressTime >= ProgressInterval

\* printProgress: patterns[passIndex] is read past the end of the vector when
\* passIndex >= patterns.size(); the byte found there is any byte
ProgressPatternChoices(t) ==
    IF ProgressDue(t) /\ numPasses > 1 /\ passIndex >= Len(patterns)
    THEN 0..MaxPatternByte
    ELSE {0}

\* ProgressLine with the percentage of the current pass alone: the bytes of
\* the passes before it are left out
ProgressLine_PerPass(bi, t, stray) ==
    [time |-> t,
     block |-> bi,
     pass |-> passIndex,
     dir |-> IF numPasses <= 1 THEN "none"
             ELSE IF (passIndex % 2) = 1 THEN "read" ELSE "write",
     pat |-> IF numPasses <= 1 THEN <<>>
             ELSE IF passIndex < Len(patterns)
                  THEN <<patterns[passIndex + 1]>> ELSE <<stray>>,
     pnum |-> bi * blockSize,
     pden |-> numBlocks * blockSize]

\* printProgress: the values of the emitted line; percent is pnum/pden * 100
ProgressLine(bi, t, stray) ==
    LET totalBytesOnePass == numBlocks * blockSize
        many == numPasses > 1
    IN  [time |-> t,
         block |-> bi,
         pass |-> passIndex,
         dir |-> IF ~many THEN "none"
                 ELSE IF (passIndex % 2) = 1 THEN "read" ELSE "write",
         pat |-> IF ~many THEN <<>>
                 ELSE IF passIndex < Len(patterns)
                      THEN <<patterns[passIndex + 1]>> ELSE <<stray>>,
         pnum |-> passIndex * totalBytesOnePass + bi * blockSize,
         pden |-> IF many THEN 2 * ((numPasses \div 2) * totalBytesOnePass)
                  ELSE totalBytesOnePass]

printProgressLog(bi, t, stray) ==
    IF ProgressDue(t) THEN Append(progress, ProgressLine(bi, t, stray))
    ELSE progress

printProgressTime(t) == IF ProgressDue(t) THEN t ELSE lastProgressTime

\* ------------------------------------------------------------- environment
\* whether the device may still misbehave in this run: misbehaviour is
\* explored in the runs of at most one pattern (a read-only pass, or one write
\* pass and its read pass); runs of several patterns use a well-behaved device
EventAllowed == Len(patterns) <= 1 /\ faults + anomalies < MaxEvents

\* what a read() call can do: succeed with the stored bytes in the usual
\* time, fail, succeed with one byte (the first or the last of the access)
\* changed, or succeed slowly or at once
ReadResults ==
    IF EventAllowed
    THEN {"ok", "fail", "badFirst", "badLast", "slow", "instant"}
    ELSE {"ok"}

WriteResults ==
    IF EventAllowed THEN {"ok", "fail", "slow", "instant"} ELSE {"ok"}

\* the ticks the call takes
Elapsed(result) ==
    IF result = "slow" THEN 1 + ProgressInterval
    ELSE IF result = "instant" THEN 0 ELSE 1

IsFault(result) == result \in {"fail", "badFirst", "badLast"}

IsAnomaly(result) == result \in {"slow", "instant"}

\* the n bytes a successful read() returns from the file offset pos
ReadData(result, n) ==
    LET k == IF result = "badFirst" THEN 1
             ELSE IF result = "badLast" THEN n ELSE 0
    IN  [j \in 1..n |-> IF j = k THEN 255 - dev[pos + j] ELSE dev[pos + j]]

\* the device after a successful write() of the first n bytes of buf at pos
WriteData(buf, n) ==
    [j \in 1..sizeBytes |->
        IF pos < j /\ j <= pos + n THEN buf[j - pos] ELSE dev[j]]

\* ------------------------------------------------------------ pass executor
\* StatsAfterIO counting a whole block for every successful call, the
\* shortened last one included
StatsAfterIO_WholeBlock(s, failed, mismatch, elapsed, n) ==
    IF failed
    THEN [s EXCEPT !.errors = @ + 1]
    ELSE [time |-> s.time + elapsed,
          errors |-> s.errors + (IF mismatch THEN 1 ELSE 0),
          bytes |-> s.bytes + blockSize]

\* StatsAfterIO starting from zero at every call: nothing is accumulated
StatsAfterIO_FromZero(s, failed, mismatch, elapsed, n) ==
    IF failed
    THEN [time |-> 0, errors |-> 1, bytes |-> 0]
    ELSE [time |-> elapsed,
          errors |-> IF mismatch THEN 1 ELSE 0,
          bytes |-> n]

\* StatsAfterIO with the failure branch leaving the loop's success path
\* running: a failed call is also given its time and bytes
StatsAfterIO_FallThrough(s, failed, mismatch, elapsed, n) ==
    [time |-> s.time + elapsed,
     errors |-> s.errors + (IF failed \/ mismatch THEN 1 ELSE 0),
     bytes |-> s.bytes + n]

\* readPass 109-133 / writePass 170-181: a record (a block's or a total) after
\* one I/O call; mismatch is the data error found by the comparison loop
StatsAfterIO(s, failed, mismatch, elapsed, n) ==
    IF failed
    THEN [s EXCEPT !.errors = @ + 1]
    ELSE [time |-> s.time + elapsed,
          errors |-> s.errors + (IF mismatch THEN 1 ELSE 0),
          bytes |-> s.bytes + n]

\* PassPattern with the loop of checkWriteRead always passing patterns[0]
PassPattern_First == IF overwrite = 0 THEN <<>> ELSE <<patterns[1]>>

\* the pattern of the pass about to run: std::nullopt (<<>>) in checkReadOnly,
\* patterns[i] in checkWriteRead
PassPattern == IF overwrite = 0 THEN <<>> ELSE <<patterns[patIdx + 1]>>

\* the bytes *pattern can yield: the pattern, or, for std::nullopt, whatever
\* the empty optional's storage holds
DerefChoices(pat) == IF pat = <<>> THEN 0..MaxPatternByte ELSE {pat[1]}

\* OpenFailure with the exception swallowed: the run goes on to its result
OpenFailure_Swallowed(msg) == pc' = "result" /\ err' = msg

\* readPass 90-93 / writePass 151-154: open() failed; the runtime_error is
\* caught in main, which reports it and exits
OpenFailure(msg) == pc' = "error" /\ err' = msg

\* CsvOpenFailure with the exception swallowed: the run goes on to its result
CsvOpenFailure_Swallowed ==
    pc' = "result" /\ err' = "Error while opening file for writing"

\* printPassStats 257-260: the CSV file cannot be opened; the runtime_error
\* is caught in main, which reports it and exits
CsvOpenFailure ==
    pc' = "error" /\ err' = "Error while opening file for writing"

\* Declined with the comparison lost: any line read lets the run go on
Declined_Never(line) == FALSE

\* main 380: the line read at the prompt is not the confirmation
Declined(line) == line # "OVERWRITE"

\* Verdict looking at the write errors only
Verdict_WriteOnly == IF totalWrite.errors > 0 THEN "ERROR" ELSE "OK"

\* printResult 70-77: the final verdict
Verdict ==
    IF totalRead.errors + totalWrite.errors > 0 THEN "ERROR" ELSE "OK"

Init ==
    /\ blockSize \in 0..MaxBlockSize
    /\ sizeBytes \in 0..MaxSizeBytes
    \* at most MaxBlocks blocks
    /\ blockSize = 0 \/ sizeBytes <= MaxBlocks * blockSize
    \* block sizes below the 8 index bytes are represented by 1 and 2
    /\ blockSize <= 2 \/ blockSize >= IndexBytes
    /\ overwrite \in 0..2
    /\ patterns \in (IF overwrite = 0 THEN {<<0>>} ELSE PatternLists)
    /\ outfile \in BOOLEAN
    /\ numBlocks = 0 /\ blockStats = <<>>
    /\ totalWrite = ZeroStats /\ totalRead = ZeroStats
    /\ lastProgressTime = 0 /\ passIndex = 0
    /\ readPassesRemaining = 0 /\ writePassesRemaining = 0 /\ numPasses = 0
    /\ pc = "ctor" /\ patIdx = 0
    /\ fd = "closed" /\ blockIndex = 0 /\ buffer = <<>> /\ expected = <<>>
    /\ pattern = <<>> /\ deref = 0
    /\ now = 0 /\ dev = Fill(sizeBytes, 255) /\ pos = 0 /\ faults = 0
    /\ anomalies = 0
    /\ passLog = <<>> /\ processed = <<>> /\ openCalls = 0 /\ prompts = 0
    /\ confirmed = FALSE /\ csv = <<>> /\ reports = <<>> /\ progress = <<>>
    /\ verdict = "none" /\ err = "none"

\* BlockChecker::BlockChecker, blockSize > 0
Constructor ==
    /\ pc = "ctor" /\ blockSize > 0
    /\ numBlocks' = NumBlocksOf(sizeBytes, blockSize)
    /\ blockStats' = Fill(numBlocks', ZeroStats)
    /\ IF sizeBytes = 0
       THEN pc' = "error" /\ err' = "Cannot determine size!"
       ELSE pc' = "main" /\ UNCHANGED err
    /\ UNCHANGED <<cfgVars, totalWrite, totalRead, lastProgressTime, passIndex,
                   readPassesRemaining, writePassesRemaining, numPasses,
                   patIdx, passVars, envVars, passLog, processed, openCalls,
                   prompts, confirmed, csv, reports, progress, verdict>>

\* BlockChecker::BlockChecker, blockSize = 0: line 36 divides by zero.  The
\* division traps (the process dies of SIGFPE), or, where the divide
\* instruction does not trap, yields 0 and the constructor goes on.
ConstructorDivByZero ==
    /\ pc = "ctor" /\ blockSize = 0
    /\ \/ pc' = "crashed" /\ UNCHANGED <<numBlocks, blockStats, err>>
       \/ /\ numBlocks' = 0 /\ blockStats' = <<>>
          /\ IF sizeBytes = 0
             THEN pc' = "error" /\ err' = "Cannot determine size!"
             ELSE pc' = "main" /\ UNCHANGED err
    /\ UNCHANGED <<cfgVars, totalWrite, totalRead, lastProgressTime, passIndex,
                   readPassesRemaining, writePassesRemaining, numPasses,
                   patIdx, passVars, envVars, passLog, processed, openCalls,
                   prompts, confirmed, csv, reports, progress, verdict>>

\* BlockChecker::checkReadOnly up to the call of readPass
checkReadOnly ==
    /\ numPasses' = 1
    /\ readPassesRemaining' = 1
    /\ writePassesRemaining' = 0
    /\ patIdx' = 0
    /\ pc' = "readPass"

\* BlockChecker::checkWriteRead up to the first call of writePass
checkWriteRead ==
    /\ numPasses' = Len(patterns) * 2
    /\ readPassesRemaining' = (Len(patterns) * 2) \div 2
    /\ writePassesRemaining' = (Len(patterns) * 2) \div 2
    /\ patIdx' = 0
    /\ pc' = IF 0 < Len(patterns) THEN "writePass" ELSE "result"

\* main 388-392: no --overwrite
MainReadOnly ==
    /\ pc = "main" /\ overwrite = 0
    /\ checkReadOnly
    /\ UNCHANGED <<cfgVars, numBlocks, blockStats, totalWrite, totalRead,
                   lastProgressTime, passIndex, passVars, envVars, outVars>>

\* main 372-386: --overwrite given once (the prompt) or twice (no prompt)
MainOverwrite ==
    /\ pc = "main" /\ overwrite > 0
    /\ \/ /\ overwrite < 2
          /\ prompts' = prompts + 1
          /\ \E line \in {"OVERWRITE", "no"} :
                /\ confirmed' = (line = "OVERWRITE")
                /\ IF Declined(line)
                   THEN /\ pc' = "exited"
                        /\ UNCHANGED <<numPasses, readPassesRemaining,
                                       writePassesRemaining, patIdx>>
                   ELSE checkWriteRead
       \/ /\ overwrite >= 2
          /\ checkWriteRead
          /\ UNCHANGED <<prompts, confirmed>>
    /\ UNCHANGED <<cfgVars, numBlocks, blockStats, totalWrite, totalRead,
                   lastProgressTime, passIndex, passVars, envVars, passLog,
                   processed, openCalls, csv, reports, progress, verdict, err>>

\* readPass 84-96: entry, open(O_RDONLY), the two buffers
ReadPassOpen ==
    /\ pc = "readPass"
    /\ readPassesRemaining' = readPassesRemaining - 1
    /\ blockStats' = Fill(numBlocks, ZeroStats)
    /\ lastProgressTime' = now
    /\ pattern' = PassPattern
    /\ passLog' = Append(passLog, [dir |-> "read", pat |-> PassPattern])
    /\ processed' = <<>>
    /\ openCalls' = openCalls + 1
    /\ \/ /\ OpenFailure("Error opening file for reading")
          /\ UNCHANGED <<fd, pos, blockIndex, buffer, expected, deref>>
       \/ /\ fd' = "read" /\ pos' = 0
          /\ buffer' = Fill(blockSize, 0)
          /\ \E b \in DerefChoices(PassPattern) :
                deref' = b /\ expected' = Fill(blockSize, b)
          /\ blockIndex' = 0
          /\ pc' = "readLoop"
          /\ UNCHANGED err
    /\ UNCHANGED <<cfgVars, numBlocks, totalWrite, totalRead, passIndex,
                   writePassesRemaining, numPasses, patIdx, now, dev, faults,
                   anomalies, prompts, confirmed, csv, reports, progress,
                   verdict>>

\* readPass 98-135: one iteration of the block loop, in which read() does
\* `result` and takes `elapsed` ticks
ReadStep(result, elapsed) ==
    /\ pc = "readLoop" /\ blockIndex < numBlocks
    /\ LET t == now + elapsed
              n == accessSize(blockIndex)
              exp == initBlock(expected, blockIndex, deref)
              failed == result = "fail"
              buf == IF failed THEN buffer
                     ELSE ReadData(result, n) \o SubSeq(buffer, n + 1, blockSize)
              mismatch == ~failed /\ DataError(pattern, buf, exp)
          IN  /\ expected' = exp
              /\ buffer' = buf
              /\ now' = t
              /\ faults' = IF IsFault(result) THEN faults + 1 ELSE faults
              /\ anomalies' = IF IsAnomaly(result) THEN anomalies + 1 ELSE anomalies
              /\ pos' = IF failed THEN pos ELSE pos + n
              /\ blockStats' = [blockStats EXCEPT ![blockIndex + 1] =
                                   StatsAfterIO(@, failed, mismatch, elapsed, n)]
              /\ totalRead' = StatsAfterIO(totalRead, failed, mismatch, elapsed, n)
              /\ processed' = Append(processed,
                                  [index |-> blockIndex, len |-> n,
                                   failed |-> failed,
                                   differs |-> ~failed /\ Mismatch(buf, exp)])
              /\ \E stray \in ProgressPatternChoices(t) :
                    progress' = printProgressLog(blockIndex, t, stray)
              /\ lastProgressTime' = printProgressTime(t)
    /\ blockIndex' = blockIndex + 1
    /\ UNCHANGED <<cfgVars, numBlocks, totalWrite, passIndex,
                   readPassesRemaining, writePassesRemaining, numPasses, pc,
                   patIdx, fd, pattern, deref, dev, passLog, openCalls,
                   prompts, confirmed, csv, reports, verdict, err>>

\* readPass 98-135 with the device of the run: see ReadResults, Elapsed
ReadBlock == \E result \in ReadResults : ReadStep(result, Elapsed(result))

\* writePass 144-156: entry, open(O_WRONLY), the buffer
WritePassOpen ==
    /\ pc = "writePass"
    /\ writePassesRemaining' = writePassesRemaining - 1
    /\ blockStats' = Fill(numBlocks, ZeroStats)
    /\ lastProgressTime' = now
    /\ pattern' = PassPattern
    /\ deref' = PassPattern[1]
    /\ passLog' = Append(passLog, [dir |-> "write", pat |-> PassPattern])
    /\ processed' = <<>>
    /\ openCalls' = openCalls + 1
    /\ \/ /\ OpenFailure("Error opening file for writing")
          /\ UNCHANGED <<fd, pos, blockIndex, buffer>>
       \/ /\ fd' = "write" /\ pos' = 0
          /\ buffer' = Fill(blockSize, PassPattern[1])
          /\ blockIndex' = 0
          /\ pc' = "writeLoop"
          /\ UNCHANGED err
    /\ UNCHANGED <<cfgVars, numBlocks, totalWrite, totalRead, passIndex,
                   readPassesRemaining, numPasses, patIdx, expected, now, dev,
                   faults, anomalies, prompts, confirmed, csv, reports,
                   progress, verdict>>

\* writePass 158-183: one iteration of the block loop
WriteBlock ==
    /\ pc = "writeLoop" /\ blockIndex < numBlocks
    /\ \E result \in WriteResults :
          LET elapsed == Elapsed(result)
              t == now + elapsed
              n == accessSize(blockIndex)
              buf == initBlock(buffer, blockIndex, deref)
              failed == result = "fail"
          IN  /\ buffer' = buf
              /\ now' = t
              /\ faults' = IF IsFault(result) THEN faults + 1 ELSE faults
              /\ anomalies' = IF IsAnomaly(result) THEN anomalies + 1 ELSE anomalies
              /\ pos' = IF failed THEN pos ELSE pos + n
              /\ dev' = IF failed THEN dev ELSE WriteData(buf, n)
              /\ blockStats' = [blockStats EXCEPT ![blockIndex + 1] =
                                   StatsAfterIO(@, failed, FALSE, elapsed, n)]
              /\ totalWrite' = StatsAfterIO(totalWrite, failed, FALSE, elapsed, n)
              /\ processed' = Append(processed,
                                  [index |-> blockIndex, len |-> n,
                                   failed |-> failed, differs |-> FALSE])
              /\ \E stray \in ProgressPatternChoices(t) :
                    progress' = printProgressLog(blockIndex, t, stray)
              /\ lastProgressTime' = printProgressTime(t)
    /\ blockIndex' = blockIndex + 1
    /\ UNCHANGED <<cfgVars, numBlocks, totalRead, passIndex,
                   readPassesRemaining, writePassesRemaining, numPasses, pc,
                   patIdx, fd, expected, pattern, deref, passLog, openCalls,
                   prompts, confirmed, csv, reports, verdict, err>>

\* initBlock with blockSize < 8: the stores to buffer[blockSize .. 7] go past
\* the end of the vector.  They land in the slack of the allocation and change
\* nothing the program reads (ReadBlock, WriteBlock), or the process dies.
InitBlockOverflow ==
    /\ pc \in {"readLoop", "writeLoop"} /\ blockIndex < numBlocks
    /\ blockSize < IndexBytes
    /\ pc' = "crashed"
    /\ UNCHANGED <<cfgVars, objVars, patIdx, passVars, envVars, outVars>>

\* printPassStats, then passIndex++ and the return to the caller, which goes
\* on at nextPc with loop variable nextIdx.
\*  - the CSV file cannot be opened: runtime_error, caught in main;
\*  - numBlocks = 0 (only after ConstructorDivByZero): blockStats[0] reads an
\*    empty vector, whose data pointer is null: the process dies;
\*  - otherwise: CSV lines, sort, summary, warnings.
printPassStats(read, nextPc, nextIdx) ==
    \/ /\ outfile
       /\ CsvOpenFailure
       /\ UNCHANGED <<csv, reports, blockStats, passIndex, patIdx>>
    \/ /\ numBlocks = 0
       /\ csv' = IF outfile
                 THEN Append(csv, [read |-> read, pass |-> passIndex,
                                   size |-> sizeBytes, lines |-> <<>>])
                 ELSE csv
       /\ pc' = "crashed"
       /\ UNCHANGED <<reports, blockStats, passIndex, patIdx, err>>
    \/ /\ numBlocks > 0
       /\ csv' = IF outfile
                 THEN Append(csv, [read |-> read, pass |-> passIndex,
                                   size |-> sizeBytes,
                                   lines |-> CsvLines(blockStats)])
                 ELSE csv
       /\ reports' = Append(reports, PassReport(read, blockStats))
       /\ blockStats' = SortByRate(blockStats)
       /\ passIndex' = passIndex + 1
       /\ patIdx' = nextIdx
       /\ pc' = nextPc
       /\ UNCHANGED err

\* readPass 137-139 and the return into checkReadOnly / checkWriteRead
ReadPassClose ==
    /\ pc = "readLoop" /\ blockIndex = numBlocks
    /\ fd' = "closed"
    /\ buffer' = <<>> /\ expected' = <<>>
    /\ IF overwrite = 0
       THEN printPassStats(TRUE, "result", patIdx)
       ELSE printPassStats(TRUE,
                IF patIdx + 1 < Len(patterns) THEN "writePass" ELSE "result",
                patIdx + 1)
    /\ UNCHANGED <<cfgVars, numBlocks, totalWrite, totalRead, lastProgressTime,
                   readPassesRemaining, writePassesRemaining, numPasses,
                   blockIndex, pattern, deref, envVars, passLog, processed,
                   openCalls, prompts, confirmed, progress, verdict>>

\* writePass 185-187 and the return into checkWriteRead
WritePassClose ==
    /\ pc = "writeLoop" /\ blockIndex = numBlocks
    /\ fd' = "closed"
    /\ buffer' = <<>>
    /\ printPassStats(FALSE, "readPass", patIdx)
    /\ UNCHANGED <<cfgVars, numBlocks, totalWrite, totalRead, lastProgressTime,
                   readPassesRemaining, writePassesRemaining, numPasses,
                   blockIndex, expected, pattern, deref, envVars, passLog,
                   processed, openCalls, prompts, confirmed, progress, verdict>>

\* BlockChecker::printResult
printResult ==
    /\ pc = "result"
    /\ verdict' = Verdict
    /\ pc' = "done"
    /\ UNCHANGED <<cfgVars, objVars, patIdx, passVars, envVars, passLog,
                   processed, openCalls, prompts, confirmed, csv, reports,
                   progress, err>>

Next ==
    \/ Constructor
    \/ ConstructorDivByZero
    \/ MainReadOnly
    \/ MainOverwrite
    \/ ReadPassOpen
    \/ ReadBlock
    \/ ReadPassClose
    \/ WritePassOpen
    \/ WriteBlock
    \/ WritePassClose
    \/ InitBlockOverflow
    \/ printResult

Spec == Init /\ [][Next]_vars

\* ------------------------------------------- read-only runs with free times
\* The statistics of printPassStats are a function of the per-block records.
\* To put them before more rates than the device of Spec produces, StatsSpec
\* runs the read-only program on devices of up to MaxStatBlocks blocks whose
\* read() calls take any of the times StatTimes, or fail.

\* call times in ticks; equal byte counts over 60, 30, 20, 15 and 12 ticks are
\* rates in the proportion 10 : 20 : 30 : 40 : 50
StatTimes == {12, 15, 20, 30, 60}

\* the configurations of StatsSpec: no --overwrite, no CSV output, a block
\* size of 8, a device of 1 .. MaxStatBlocks whole blocks
StatsInit ==
    /\ blockSize = IndexBytes
    /\ sizeBytes \in {blockSize * n : n \in 1..MaxStatBlocks}
    /\ overwrite = 0
    /\ patterns = <<0>>
    /\ outfile = FALSE
    /\ numBlocks = 0 /\ blockStats = <<>>
    /\ totalWrite = ZeroStats /\ totalRead = ZeroStats
    /\ lastProgressTime = 0 /\ passIndex = 0
    /\ readPassesRemaining = 0 /\ writePassesRemaining = 0 /\ numPasses = 0
    /\ pc = "ctor" /\ patIdx = 0
    /\ fd = "closed" /\ blockIndex = 0 /\ buffer = <<>> /\ expected = <<>>
    /\ pattern = <<>> /\ deref = 0
    /\ now = 0 /\ dev = Fill(sizeBytes, 255) /\ pos = 0 /\ faults = 0
    /\ anomalies = 0
    /\ passLog = <<>> /\ processed = <<>> /\ openCalls = 0 /\ prompts = 0
    /\ confirmed = FALSE /\ csv = <<>> /\ reports = <<>> /\ progress = <<>>
    /\ verdict = "none" /\ err = "none"

\* readPass 98-135 with a read() that takes any of the times, or fails
ReadBlockTimed ==
    \/ \E e \in StatTimes : ReadStep("ok", e)
    \/ ReadStep("fail", 1)

StatsNext ==
    \/ Constructor
    \/ MainReadOnly
    \/ ReadPassOpen
    \/ ReadBlockTimed
    \/ ReadPassClose
    \/ printResult

StatsSpec == StatsInit /\ [][StatsNext]_vars

\* ------------------------------------------------------------------ claims
Indexes(log) == [j \in 1..Len(log) |-> log[j].index]

\* the block indexes 0 .. numBlocks-1 in ascending order
AllBlocks == [j \in 1..numBlocks |-> j - 1]

\* a step of the block loop whose read()/write() call failed
IOFailStep ==
    /\ pc \in {"readLoop", "writeLoop"}
    /\ Len(processed') = Len(processed) + 1
    /\ processed'[Len(processed')].failed

\* a step that closes the device at the end of a pass
CloseStep == fd # "closed" /\ fd' = "closed"

\* C1: a failed block I/O call adds exactly one to that block's error count
\* and to the error count of the pass direction's total, leaves the time and
\* bytes of both unchanged, leaves the other direction's total alone, and the
\* loop goes on with the next block; a pass is closed only after the blocks
\* 0 .. numBlocks-1 were processed in ascending order, and the closing step
\* finalizes the pass (printPassStats runs: a summary is produced, or its CSV
\* file cannot be opened).
C1_IOErrorCountedAndPassContinues ==
    [][ /\ IOFailStep =>
            LET b == blockIndex + 1
                total == IF pc = "readLoop" THEN totalRead ELSE totalWrite
                total2 == IF pc = "readLoop" THEN totalRead' ELSE totalWrite'
            IN  /\ blockStats'[b].errors = blockStats[b].errors + 1
                /\ blockStats'[b].time = blockStats[b].time
                /\ blockStats'[b].bytes = blockStats[b].bytes
                /\ \A j \in 1..numBlocks :
                      j # b => blockStats'[j] = blockStats[j]
                /\ total2.errors = total.errors + 1
                /\ total2.time = total.time
                /\ total2.bytes = total.bytes
                /\ pc = "readLoop" => totalWrite' = totalWrite
                /\ pc = "writeLoop" => totalRead' = totalRead
                /\ pc' = pc
                /\ blockIndex' = blockIndex + 1
                /\ processed'[Len(processed')].index = blockIndex
        /\ CloseStep =>
            /\ Indexes(processed) = AllBlocks
            /\ \/ Len(reports') = Len(reports) + 1
               \/ pc' = "error" /\ outfile
               \/ pc' = "crashed" /\ numBlocks = 0
      ]_vars

\* C1 witness: a pass is finalized in which the I/O call of a block that is
\* not the last one failed, and the summary reports that one error
C1_Witness ==
    /\ fd = "closed" /\ pc \in {"readPass", "writePass", "result"}
    /\ Len(reports) = passIndex /\ passIndex > 0
    /\ \E j \in 1..Len(processed) : processed[j].failed /\ j < Len(processed)
    /\ Indexes(processed) = AllBlocks
    /\ reports[Len(reports)].errors >= 1

\* the passes the run plan holds
ExpectedPasses ==
    IF overwrite = 0
    THEN << [dir |-> "read", pat |-> <<>>] >>
    ELSE [k \in 1..(2 * Len(patterns)) |->
             [dir |-> IF (k % 2) = 1 THEN "write" ELSE "read",
              pat |-> <<patterns[(k + 1) \div 2]>>]]

\* C2: the passes started so far are the first passes of the plan (one read
\* pass without pattern in read-only mode; write(P[0]), read(P[0]),
\* write(P[1]), ... in overwrite mode); when the final result is reached the
\* whole plan has run; and whenever a pass is about to open the device, the
\* device is closed and the pass before it has processed all its blocks, the
\* last one included.
C2_PassOrder ==
    /\ Len(passLog) <= Len(ExpectedPasses)
    /\ passLog = SubSeq(ExpectedPasses, 1, Len(passLog))
    /\ pc \in {"result", "done"} => passLog = ExpectedPasses
    /\ pc \in {"readPass", "writePass"} =>
          /\ fd = "closed"
          /\ Len(passLog) = passIndex
          /\ passLog # <<>> => Indexes(processed) = AllBlocks
    /\ fd # "closed" => pc \in {"readLoop", "writeLoop", "crashed"}

\* C2 witness: a run with two different patterns has reached its result
C2_Witness ==
    /\ pc = "done" /\ overwrite > 0
    /\ Len(patterns) = 2 /\ patterns[1] # patterns[2]
    /\ Len(passLog) = 4

\* C3 (as claimed, for block sizes of at least the 8 index bytes): in a run
\* in which no I/O call failed and every read returned the bytes stored, no
\* read error is counted.
C3_RoundTripNoReadError ==
    (overwrite > 0 /\ faults = 0 /\ blockSize >= IndexBytes) =>
        totalRead.errors = 0

\* ceil(size / bs) for bs > 0
CeilDiv(size, bs) ==
    CHOOSE n \in 0..size : n * bs >= size /\ (n = 0 \/ (n - 1) * bs < size)

\* C4: with sizeBytes > 0 and blockSize > 0, numBlocks is ceil(sizeBytes /
\* blockSize); the j-th I/O call of a pass, read or write, is for block j-1 and
\* has length blockSize, except that the last block has length sizeBytes %
\* blockSize when that is not 0; and the lengths of a pass that processed all
\* its blocks add up to sizeBytes.
C4_Geometry ==
    (pc \notin {"ctor", "error"} /\ blockSize > 0 /\ sizeBytes > 0) =>
        /\ numBlocks = CeilDiv(sizeBytes, blockSize)
        /\ \A j \in 1..Len(processed) :
              /\ processed[j].index = j - 1
              /\ processed[j].len =
                    IF j = numBlocks /\ (sizeBytes % blockSize) # 0
                    THEN sizeBytes % blockSize
                    ELSE blockSize
        /\ Len(processed) = numBlocks =>
              SumSeq([j \in 1..numBlocks |-> processed[j].len]) = sizeBytes

\* C4 witness: a write pass and a read pass have each processed all blocks of
\* a device of several blocks whose size is no multiple of the block size
C4_Witness ==
    /\ pc = "readLoop" /\ passIndex = 1
    /\ Len(processed) = numBlocks /\ numBlocks >= 2
    /\ (sizeBytes % blockSize) # 0
    /\ processed[numBlocks].len = sizeBytes % blockSize

\* a pass has just been completed: the device is closed, printPassStats has
\* returned, and blockStats and processed still hold that pass's records
CompletedPass ==
    /\ fd = "closed" /\ passIndex > 0 /\ Len(reports) = passIndex
    /\ pc \in {"readPass", "writePass", "result", "done"}

SumBytes == SumSeq([j \in 1..Len(blockStats) |-> blockStats[j].bytes])

\* the access lengths of the blocks of the last pass whose I/O call failed
FailedLen ==
    SumSeq([j \in 1..Len(processed) |->
               IF processed[j].failed THEN processed[j].len ELSE 0])

FailedCount ==
    Cardinality({j \in 1..Len(processed) : processed[j].failed})

\* C5 (as claimed): at the end of every completed pass the bytes fields of
\* the per-block records add up to sizeBytes.
C5_BytesSumIsSize == CompletedPass => SumBytes = sizeBytes

\* C5 (amended): at the end of every completed pass the bytes fields of the
\* per-block records add up to sizeBytes less the access lengths of the
\* blocks whose I/O call failed.
C5_BytesSumIsSizeLessFailed ==
    CompletedPass => SumBytes = sizeBytes - FailedLen

\* C5 witness: a pass over a device whose size is no multiple of the block
\* size is completed, in which an I/O call failed
C5_Witness ==
    /\ CompletedPass /\ FailedLen > 0 /\ numBlocks >= 2
    /\ (sizeBytes % blockSize) # 0

\* C6: in read-only mode the read errors counted are the failed read calls,
\* during the pass and after it, whatever the device returned.
C6_ReadOnlyCountsOnlyFailures ==
    (overwrite = 0 /\ pc \in {"readLoop", "result", "done"}) =>
        /\ totalRead.errors = FailedCount
        /\ pc = "readLoop" =>
              \A j \in 1..Len(processed) :
                  blockStats[j].errors = IF processed[j].failed THEN 1 ELSE 0

\* C6 witness: a read-only run has ended in which one read failed and another
\* returned bytes that differ from the content of the expected buffer
C6_Witness ==
    /\ overwrite = 0 /\ pc = "done"
    /\ \E j \in 1..Len(processed) : processed[j].differs
    /\ \E j \in 1..Len(processed) : processed[j].failed
    /\ totalRead.errors = 1

ReportedErrors == SumSeq([j \in 1..Len(reports) |-> reports[j].errors])

\* C7: between passes and at the end of the run the two totals' error counts
\* add up to the sum of the error counts the pass summaries reported; no
\* verdict is printed before the end, and the verdict is ERROR exactly when
\* that total is greater than 0 and OK otherwise.
C7_TotalsAndVerdict ==
    /\ pc \in {"readPass", "writePass", "result", "done"} =>
          totalRead.errors + totalWrite.errors = ReportedErrors
    /\ pc # "done" => verdict = "none"
    /\ pc = "done" =>
          /\ verdict \in {"OK", "ERROR"}
          /\ verdict = "ERROR" <=> ReportedErrors > 0

\* C7 witness: a run of several passes has ended with the verdict ERROR and
\* errors in both directions
C7_Witness ==
    /\ pc = "done" /\ verdict = "ERROR" /\ Len(reports) >= 2
    /\ totalRead.errors > 0 /\ totalWrite.errors > 0

\* a step in which open() fails at the start of a pass
OpenFailStep == pc \in {"readPass", "writePass"} /\ err' # err

\* C8: a step in which the open of a pass fails makes one open call, does no
\* block I/O, leaves both totals and the device as they are, prints no
\* result and ends the run in the error exit, from which no step is taken
\* (no retry, no later pass, no final result).
C8_OpenFailureAbortsRun ==
    [][ /\ pc # "error"
        /\ OpenFailStep =>
              /\ pc' = "error"
              /\ openCalls' = openCalls + 1
              /\ processed' = <<>>
              /\ totalRead' = totalRead /\ totalWrite' = totalWrite
              /\ dev' = dev /\ fd' = "closed"
              /\ verdict' = "none" /\ reports' = reports
              /\ passIndex' = passIndex
      ]_vars

\* C8 witness: the open of a read pass failed after a write pass had run
C8_Witness ==
    /\ pc = "error" /\ err = "Error opening file for reading"
    /\ passIndex >= 1 /\ totalWrite.bytes > 0
    /\ openCalls = 2 /\ processed = <<>>

\* C9 (as claimed): once the constructor has run with sizeBytes = 0 or
\* blockSize = 0, the run has failed with the size error, no pass was started
\* and the device was never opened.
C9_InvalidDeviceRejected ==
    (pc # "ctor" /\ (sizeBytes = 0 \/ blockSize = 0)) =>
        /\ pc = "error" /\ err = "Cannot determine size!"
        /\ passLog = <<>> /\ openCalls = 0

WriteStarted == \E j \in 1..Len(passLog) : passLog[j].dir = "write"

\* C10 (as claimed): a write pass has started, or the device is open for
\* writing or changed, only if the confirmation was given; the prompt is
\* shown at most once.
C10_WriteNeedsConfirmation ==
    /\ prompts <= 1
    /\ (WriteStarted \/ fd = "write" \/ dev # Fill(sizeBytes, 255)) =>
          confirmed /\ prompts = 1

\* C10 (amended): a write pass has started, or the device is open for writing
\* or changed, only if the confirmation was given at the one prompt of the
\* run, or --overwrite was given twice, in which case no prompt is shown.
C10_WriteNeedsConfirmationOrForce ==
    /\ prompts <= 1
    /\ confirmed => prompts = 1
    /\ overwrite # 1 => prompts = 0
    /\ (WriteStarted \/ fd = "write" \/ dev # Fill(sizeBytes, 255)) =>
          \/ confirmed /\ prompts = 1 /\ overwrite = 1
          \/ overwrite >= 2 /\ prompts = 0

\* C10 witness: the second write pass of a confirmed run is writing; the
\* prompt was shown once
C10_Witness ==
    /\ pc = "writeLoop" /\ passIndex = 2 /\ blockIndex >= 1
    /\ confirmed /\ prompts = 1 /\ overwrite = 1

\* the rate of record j of the pass just completed
RateOf(j) == getRateMB(blockStats[j])

RateEq(a, b) == a[1] * b[2] = b[1] * a[2]

\* the records whose rate is below rate r, and those whose rate is at most r
Slower(r) == {j \in 1..numBlocks : RateLess(RateOf(j), r)}

NotFaster(r) == {j \in 1..numBlocks : ~RateLess(r, RateOf(j))}

\* rate r stands at (0-based) place k of the rates in ascending order
AtPlace(r, k) ==
    /\ \E j \in 1..numBlocks : RateEq(RateOf(j), r)
    /\ Cardinality(Slower(r)) <= k
    /\ Cardinality(NotFaster(r)) > k

\* C11: the summary of a completed pass reports as min, max and med the rates
\* at places 0, numBlocks-1 and numBlocks/2 (integer division) of the pass's
\* per-block rates in ascending order; for an even count that is the upper
\* of the two middle rates.
C11_MinMaxMed ==
    CompletedPass =>
        LET r == reports[Len(reports)]
        IN  /\ AtPlace(r.min, 0)
            /\ AtPlace(r.max, numBlocks - 1)
            /\ AtPlace(r.med, numBlocks \div 2)

\* C11 witness: a pass over four blocks of four different rates is completed;
\* the med reported has two slower blocks and one faster block
C11_Witness ==
    /\ CompletedPass /\ numBlocks = 4
    /\ \A i, j \in 1..numBlocks : RateEq(RateOf(i), RateOf(j)) => i = j
    /\ Cardinality(Slower(reports[Len(reports)].med)) = 2
    /\ Cardinality(Slower(reports[Len(reports)].max)) = 3
    /\ Cardinality(Slower(reports[Len(reports)].min)) = 0

\* the records of the pass just completed whose rate is strictly below
\* percent/100 of rate med
BelowThreshold(med, percent) ==
    {j \in 1..numBlocks :
        RateOf(j)[1] * med[2] * 100 < med[1] * percent * RateOf(j)[2]}

\* C12: for each of the thresholds 50, 20, 10 and 5 the count the summary of
\* a completed pass gives is the number of blocks of the pass whose rate is
\* strictly below that percentage of the reported median, each count taken
\* over all blocks, and the warning of a threshold is printed exactly when its
\* count is greater than 0.
C12_ThresholdCounts ==
    CompletedPass =>
        LET r == reports[Len(reports)]
        IN  /\ Percentiles = <<50, 20, 10, 5>>
            /\ \A t \in 1..4 :
                  /\ r.slow[t] = Cardinality(BelowThreshold(r.med, Percentiles[t]))
                  /\ t \in Warnings(r) <=>
                        Cardinality(BelowThreshold(r.med, Percentiles[t])) > 0

\* C12 witness: a pass over five blocks is completed whose rates are in the
\* proportion 10 : 20 : 30 : 40 : 50 (equal bytes in 60, 30, 20, 15 and 12
\* ticks); one block is counted at 50%, none at 20%, 10% and 5%, and the one
\* warning printed is that of 50%
C12_Witness ==
    /\ CompletedPass /\ numBlocks = 5
    /\ \A j \in 1..5 : blockStats[j].bytes = blockSize
    /\ [j \in 1..5 |-> blockStats[j].time] = <<60, 30, 20, 15, 12>>
    /\ reports[Len(reports)].slow = <<1, 0, 0, 0>>
    /\ Warnings(reports[Len(reports)]) = {1}

\* the errors block j of the running pass has recorded: its failed call, or
\* the data error its comparison found
ErrorsOf(j) ==
    IF processed[j].failed \/ (pattern # <<>> /\ processed[j].differs)
    THEN 1 ELSE 0

\* C13: with an output prefix, the step that ends a pass writes one CSV file,
\* named by direction, pass index and device size, of exactly numBlocks lines;
\* line i carries block index i, the time block i recorded in this pass and
\* the error count block i recorded in this pass, whatever order the sort by
\* rate gives the records afterwards.  Without a prefix no file is written,
\* and no other step writes one.
C13_CsvInIndexOrder ==
    [][ /\ (CloseStep /\ outfile /\ pc' # "error") =>
              /\ Len(csv') = Len(csv) + 1
              /\ SubSeq(csv', 1, Len(csv)) = csv
              /\ LET f == csv'[Len(csv')]
                 IN  /\ f.read = (pc = "readLoop")
                     /\ f.pass = passIndex
                     /\ f.size = sizeBytes
                     /\ Len(f.lines) = numBlocks
                     /\ \A i \in 0..(numBlocks - 1) :
                           /\ f.lines[i + 1][1] = i
                           /\ f.lines[i + 1][2] = blockStats[i + 1].time
                           /\ f.lines[i + 1][3] = blockStats[i + 1].errors
                           /\ f.lines[i + 1][3] = ErrorsOf(i + 1)
        /\ csv' # csv => CloseStep /\ outfile
      ]_vars

\* C13 witness: a pass with CSV output is completed whose records the sort has
\* put in another order than the lines of the file
C13_Witness ==
    /\ CompletedPass /\ outfile /\ Len(csv) = passIndex /\ numBlocks >= 2
    /\ \E i \in 1..numBlocks :
          csv[Len(csv)].lines[i][2] # blockStats[i].time
    /\ \A i \in 1..numBlocks : csv[Len(csv)].lines[i][1] = i - 1

\* a step in which the CSV file of the pass being ended cannot be opened
CsvFailStep == CloseStep /\ err' # err

\* C14: the CSV file of a pass can fail to open only with an output prefix;
\* the step in which it does ends the run in the error exit with no file and
\* no summary written for that pass, nothing printed as a result and the
\* device closed; and from the error exit no step is taken: no later pass
\* opens, reads or writes the device and no verdict is printed.
C14_CsvOpenFailureIsFatal ==
    [][ /\ pc # "error"
        /\ CsvFailStep =>
              /\ outfile
              /\ pc' = "error"
              /\ err' = "Error while opening file for writing"
              /\ csv' = csv /\ reports' = reports
              /\ verdict' = "none"
              /\ fd' = "closed" /\ dev' = dev
              /\ openCalls' = openCalls /\ passLog' = passLog
              /\ passIndex' = passIndex
      ]_vars

\* C14 witness: in a run of two patterns the CSV file of the second pass could
\* not be opened: the run is in the error exit after two of its four passes,
\* with the CSV file of the first pass written and no verdict
C14_Witness ==
    /\ pc = "error" /\ err = "Error while opening file for writing"
    /\ outfile /\ Len(patterns) = 2
    /\ passIndex = 1 /\ Len(passLog) = 2 /\ Len(csv) = 1
    /\ verdict = "none"

\* a step of the block loop of a read pass with a pattern whose read() call
\* succeeded
VerifiedReadStep ==
    /\ pc = "readLoop" /\ pattern # <<>>
    /\ Len(processed') = Len(processed) + 1
    /\ ~processed'[Len(processed')].failed

\* C15 (as claimed, for block sizes of at least the 8 index bytes): in a read
\* pass with a pattern, a block whose read succeeded gets the error count 1 if a byte within its access length differs
\* from the expected content of the block and 0 otherwise, and totalRead.errors
\* grows by the same amount.
C15_OneDataErrorPerBlock ==
    [][ (VerifiedReadStep /\ blockSize >= IndexBytes) =>
            LET b == blockIndex + 1
                differs == \E k \in 1..accessSize(blockIndex) :
                               buffer'[k] # expected'[k]
                d == IF differs THEN 1 ELSE 0
            IN  /\ blockStats'[b].errors = d
                /\ totalRead'.errors = totalRead.errors + d
      ]_vars

\* the pattern buffer of the running pass: the write buffer of a write pass,
\* the expected buffer of a read pass
PatternBuffer == IF pc = "writeLoop" THEN buffer ELSE expected

\* byte k (0 = least significant) of block index i, for i < 2^32
IndexByte(i, k) == IF k >= 4 THEN 0 ELSE (i \div (256 ^ k)) % 256

\* C16 (as claimed): in a write pass, and in a read pass with a pattern, once
\* a block i has been processed the pattern buffer it was processed with has
\* exactly blockSize bytes, of which bytes 0..7 are p XOR byte k of i and all
\* others are p, for every block size.
C16_PatternBufferContent ==
    (pc \in {"readLoop", "writeLoop"} /\ pattern # <<>> /\ blockIndex >= 1) =>
        LET i == blockIndex - 1
            p == pattern[1]
        IN  /\ Len(PatternBuffer) = blockSize
            /\ \A k \in 0..(IndexBytes - 1) :
                  /\ k + 1 \in DOMAIN PatternBuffer
                  /\ PatternBuffer[k + 1] = Xor(p, IndexByte(i, k), 8)
            /\ \A k \in (IndexBytes + 1)..blockSize : PatternBuffer[k] = p

\* a step that emits a progress line
EmitStep ==
    /\ Len(progress') = Len(progress) + 1
    /\ SubSeq(progress', 1, Len(progress)) = progress

\* a step that enters a pass (readPass 84-87, writePass 144-147)
PassStartStep == pc \in {"readPass", "writePass"}

\* an emitted line is at least 0.5 s (ProgressInterval ticks) after the line
\* before it, and the field takes the time of the line
EmissionsApart ==
    EmitStep =>
        /\ progress # <<>> =>
              progress'[Len(progress')].time
                  >= progress[Len(progress)].time + ProgressInterval
        /\ lastProgressTime' = progress'[Len(progress')].time
        /\ progress'[Len(progress')].time = now'

\* C17 (as claimed): consecutive progress lines are at least 0.5 s apart, and
\* lastProgressTime changes only in a step that emits a progress line.
C17_ProgressThrottled ==
    [][ /\ progress' # progress => EmitStep
        /\ EmissionsApart
        /\ lastProgressTime' # lastProgressTime => EmitStep
      ]_vars

\* C17 (amended): consecutive progress lines are at least 0.5 s apart, and
\* lastProgressTime changes only in a step that emits a progress line, or at
\* the start of a pass, where it is set to the current time and nothing is
\* emitted.
C17_ProgressThrottledPerPass ==
    [][ /\ progress' # progress => EmitStep
        /\ EmissionsApart
        /\ lastProgressTime' # lastProgressTime => EmitStep \/ PassStartStep
        /\ PassStartStep =>
              /\ lastProgressTime' = now
              /\ progress' = progress
      ]_vars

\* C17 witness: lines were emitted in two passes of a run; between them the
\* start of the second pass set lastProgressTime without a line, and the field
\* now holds the time of the last line
C17_Witness ==
    /\ Len(progress) >= 2
    /\ progress[Len(progress) - 1].pass = 0
    /\ progress[Len(progress)].pass = 1
    /\ lastProgressTime = progress[Len(progress)].time
    /\ progress[Len(progress)].time
          > progress[Len(progress) - 1].time + ProgressInterval

\* C18 (as claimed): in overwrite mode every progress line names the
\* direction of the pass it was emitted in, write for an even pass index and
\* read for an odd one, and the pattern byte that pass writes or verifies.
C18_ProgressNamesPass ==
    overwrite > 0 =>
        \A j \in 1..Len(progress) :
            LET line == progress[j]
                ran == passLog[line.pass + 1]
            IN  /\ line.dir = ran.dir
                /\ line.dir = IF (line.pass % 2) = 0 THEN "write" ELSE "read"
                /\ line.pat = ran.pat

\* no field of record b is below that field of record a
NotBelow(a, b) ==
    /\ b.time >= a.time
    /\ b.bytes >= a.bytes
    /\ b.errors >= a.errors

\* C19: no step of a run lowers a field of totalRead or totalWrite; the steps
\* that start a pass (where the per-block records are cleared) and that end
\* one leave both totals as they are; a write pass leaves totalRead unchanged
\* and a read pass leaves totalWrite unchanged.
C19_TotalsOnlyGrow ==
    [][ /\ NotBelow(totalRead, totalRead')
        /\ NotBelow(totalWrite, totalWrite')
        /\ (PassStartStep \/ CloseStep) =>
              totalRead' = totalRead /\ totalWrite' = totalWrite
        /\ pc \in {"writePass", "writeLoop"} => totalRead' = totalRead
        /\ pc \in {"readPass", "readLoop"} => totalWrite' = totalWrite
      ]_vars

\* C19 witness: the second write pass of a run has processed a block; the
\* per-block records were cleared at its start, totalRead still holds the
\* bytes of the first read pass and totalWrite those of both write passes
C19_Witness ==
    /\ pc = "writeLoop" /\ passIndex = 2 /\ blockIndex = 1 /\ numBlocks >= 2
    /\ blockStats[numBlocks] = ZeroStats
    /\ totalRead.bytes = sizeBytes
    /\ totalWrite.bytes = sizeBytes + blockSize
    /\ totalRead.time > 0

\* C20: the percentage of every progress line of a run lies between 0 and
\* 100, and the percentage of a line is not below that of the line emitted
\* before it, within a pass and from one pass to the next, in read-only mode
\* and in overwrite mode.  (percent = pnum / pden * 100)
C20_PercentMonotone ==
    /\ \A j \in 1..Len(progress) :
          /\ progress[j].pden > 0
          /\ 0 <= progress[j].pnum
          /\ progress[j].pnum <= progress[j].pden
    /\ \A j \in 1..(Len(progress) - 1) :
          progress[j].pnum * progress[j + 1].pden
              <= progress[j + 1].pnum * progress[j].pden

\* C20 witness: an overwrite run has emitted several lines, and a line of its
\* read pass follows a line of its write pass that was at a higher block
\* index; the percentage has gone up from the one to the other
C20_Witness ==
    /\ overwrite > 0 /\ Len(progress) >= 3
    /\ \E j \in 1..(Len(progress) - 1) :
          /\ progress[j].pass < progress[j + 1].pass
          /\ progress[j].block > progress[j + 1].block
          /\ progress[j].pnum * progress[j + 1].pden
                < progress[j + 1].pnum * progress[j].pden

====
